---- MODULE Spec2Model ----
(***************************************************************************)
(* A model of the answer-resolution pipeline of src/task_bot2.py: the      *)
(* /askquestion handler (ask_question), the resolver                       *)
(* (get_ai_response_with_fallbacks), the model query (query_ai_model),     *)
(* the keyword fallback (get_rule_based_answer) and the senders            *)
(* (send_answer_safely, send_error_message).                               *)
(*                                                                         *)
(* A text is a record [core, pad, hedge, marker, id]: core is the number   *)
(* of characters that str.strip() keeps, pad the number of surrounding     *)
(* whitespace characters, hedge/marker say whether the lower-cased text    *)
(* contains one of the hedge phrases / the phrase "server rules", and id   *)
(* names the literal the text comes from ("upstream" for model output).    *)
(*                                                                         *)
(* The process around the handlers is modelled from run_with_fallbacks on: *)
(* the retry loop, the two tasks of main (run_web_server,                  *)
(* run_discord_bot), emergency_main and the HTTP handlers of the three     *)
(* servers. SpecProcess runs the process, the other specifications run     *)
(* the handlers in a process whose bot is connected.                       *)
(*                                                                         *)
(* The two GenerativeModel handles are built without a credential          *)
(* (lines 81 and 91): the key a query runs under is the process-wide one   *)
(* last given to genai.configure, read when the upstream call starts.      *)
(***************************************************************************)
EXTENDS Integers, Sequences, FiniteSets, TLC

\* ------------------------------------------------------------------ bounds
\* Number of /askquestion invocations that may be in flight together.
NumReqs == 2
\* Largest number of surrounding whitespace characters of an upstream text.
MaxPad == 1

\* ------------------------------------------------------- program constants
\* len(answer) > 10 (lines 537, 547, 608)
MinAnswerLen == 10
\* len(question.strip()) < 3 (line 504)
MinQuestionLen == 3
\* The platform's bound on the length of one chat message.
MessageBound == 2000

\* max_retries of run_with_fallbacks (line 874)
max_retries == 3

Reqs == 1..NumReqs

\* ------------------------------------------------------------------- texts
None == [kind |-> "None"]

Str(core, pad, hedge, marker, id) ==
    [kind |-> "str", core |-> core, pad |-> pad, hedge |-> hedge,
     marker |-> marker, id |-> id]

\* len(s)
len(s) == s.core + s.pad

\* s.strip()
strip(s) == [s EXCEPT !.pad = 0]

\* Python truthiness of an Optional[str]
truthy(s) == s # None /\ len(s) > 0

\* "it depends" has 10 characters, "server rules" 12: a text holding a phrase
\* is at least as long as the phrase.
WellFormed(s) ==
    /\ s.hedge => s.core >= 10
    /\ s.marker => s.core >= 12
    /\ (s.hedge /\ s.marker) => s.core >= 22

\* 27 and 42 are the lengths of "it depends on the situation" and of
\* "it depends, per the server rules, on karma".
UpstreamCores == {0, MinAnswerLen, MinAnswerLen + 1, 27, 42, MessageBound + 1}

\* Every text the upstream model may answer with.
UpstreamTexts ==
    { s \in [kind : {"str"}, core : UpstreamCores, pad : 0..MaxPad,
             hedge : BOOLEAN, marker : BOOLEAN, id : {"upstream"}] :
        WellFormed(s) }

\* str(e) of an exception raised by the upstream call (lines 614, 615).
ErrorDetail == Str(30, 0, FALSE, FALSE, "exception")

Raised == [kind |-> "Exception", detail |-> ErrorDetail]

\* What one upstream call may end in: a response carrying text, a response
\* without usable text, the 10 s timeout, or any other exception.
Outcomes ==
    { [kind |-> "response", text |-> s] : s \in UpstreamTexts }
      \cup { [kind |-> "no_text"], [kind |-> "TimeoutError"], Raised }

\* A small alphabet for the runs with several requests in flight.
PlainText == Str(42, 0, FALSE, FALSE, "upstream")
ShortText == Str(MinAnswerLen, 0, FALSE, FALSE, "upstream")
CoarseOutcomes ==
    { [kind |-> "response", text |-> PlainText],
      [kind |-> "response", text |-> ShortText],
      [kind |-> "TimeoutError"], Raised }

\* --------------------------------------------------------------- questions
\* A question is a record [core, pad, kws, upper]: core and pad as for a
\* text, kws the categories one of whose keywords the question contains in
\* some spelling, upper those of them it spells with a capital letter.
\* Mutant of Categories: the task keywords are tested first.
Categories_task_first == <<"task", "verification", "payment", "rules">>

Categories == <<"verification", "payment", "task", "rules">>

Cased(core, pad, kws, upper) ==
    [core |-> core, pad |-> pad, kws |-> kws, upper |-> upper]

Question(core, pad, kws) == Cased(core, pad, kws, {})

\* question.lower() (line 621)
lower(q) == [q EXCEPT !.upper = {}]

\* any(word in s for word in the keywords of cat), a case-sensitive test
contains(s, cat) == cat \in s.kws /\ cat \notin s.upper

Questions ==
    { Question(0, 0, {}), Question(0, 2, {}), Question(2, 1, {}),
      Question(MinQuestionLen, 0, {}), Question(40, 0, {}),
      Question(40, 0, {"task"}), Question(40, 0, {"verification", "task"}) }

ValidQuestions == { Question(40, 0, {}), Question(40, 0, {"payment"}) }

\* Every combination of keyword categories, in every spelling.
KeywordQuestions ==
    { q \in [core : {40}, pad : {0},
             kws : SUBSET {"verification", "payment", "task", "rules"},
             upper : SUBSET {"verification", "payment", "task", "rules"}] :
        q.upper \subseteq q.kws }

\* ------------------------------------------------------------- credentials
NoKey == ""
PrimaryKeys == {NoKey, "K1"}
BackupKeys == {NoKey, "K1", "K2"}

VARIABLES
    GEMINI_API_KEY,         \* line 45
    GEMINI_BACKUP_API_KEY,  \* line 46
    model,                  \* line 71: TRUE when the primary handle exists
    backup_model,           \* line 72: TRUE when the backup handle exists
    api_key,                \* the key genai is configured with (lines 80, 545)
    pc,                     \* per request: idle, primary_wait, backup_wait, done
    question,               \* per request: the question asked
    stages,                 \* per request: the resolver stages entered, in order
    queries,                \* per request: the model queries issued, in order
    answer,                 \* per request: what the resolver returned
    io,                     \* per request: the platform calls made, in order
    expired,                \* per request: the interaction is closed or expired
    error,                  \* per request: the command error the library raised
    DISCORD_TOKEN,          \* line 44
    attempt,                \* run_with_fallbacks: the loop variable (line 877)
    sup,                    \* run_with_fallbacks: main, keep_web, sleep,
                            \*   emergency, stopped, exited
    web_task,               \* the HTTP server task: start, a serving mode, failed
    bot_task,               \* the bot task: start, connecting, ready, failed, closed
    listening,              \* the number of HTTP servers bound to the port
    http                    \* the last HTTP response the process gave

vars == <<GEMINI_API_KEY, GEMINI_BACKUP_API_KEY, model, backup_model, api_key,
          pc, question, stages, queries, answer, io, expired, error,
          DISCORD_TOKEN, attempt, sup, web_task, bot_task, listening, http>>

config == <<GEMINI_API_KEY, GEMINI_BACKUP_API_KEY, model, backup_model>>

\* The state of the command handlers and the state of the process.
handlers ==
    <<config, api_key, pc, question, stages, queries, answer, io, expired, error>>
process == <<DISCORD_TOKEN, attempt, sup, web_task, bot_task, listening, http>>

NoQuestion == [core |-> 0, pad |-> 0, kws |-> {"unasked"}, upper |-> {}]
NotResolved == [kind |-> "NotResolved"]

Pending == [kind |-> "pending"]

NoError == [kind |-> "none"]

\* ------------------------------------------------------- configure_gemini
\* perr: where the first try block raises ("ok": nowhere); berr: the second
\* try block raises.
configure_gemini(pk, bk, perr, berr) ==
    [model |-> (pk # NoKey /\ perr = "ok"),
     api_key |-> IF pk # NoKey /\ perr # "configure" THEN pk ELSE NoKey,
     backup_model |-> (bk # NoKey /\ ~berr)]

\* ------------------------------------------------------------ canned texts
\* Mutant of fallback_responses0: the last entry of the list is returned.
fallback_responses3 == Str(78, 0, FALSE, FALSE, "fallback_responses[3]")

fallback_responses0 == Str(140, 0, FALSE, TRUE, "fallback_responses[0]")

\* The user and channel references a text of the program contains.
Mentions(s) ==
    CASE s.id = "fallback_responses[0]" ->
            {"<#1379815484056277044>", "<@703280080213901342>"}
      [] s.id = "verification" -> {"<#1382588462372356286>"}
      [] s.id = "payment" -> {"<@703280080213901342>"}
      [] s.id = "task" -> {"<#1382657321641181236>"}
      [] s.id = "rules" -> {"<#1382588462372356286>", "<#1379815484056277044>"}
      [] OTHER -> {}

CannedAnswer(cat) ==
    CASE cat = "verification" -> Str(170, 0, FALSE, FALSE, "verification")
      [] cat = "payment" -> Str(139, 0, FALSE, FALSE, "payment")
      [] cat = "task" -> Str(167, 0, FALSE, FALSE, "task")
      [] cat = "rules" -> Str(115, 0, FALSE, TRUE, "rules")

\* get_rule_based_answer: the canned answer of the first category, in the
\* order of the if statements, one of whose keywords the question contains.
get_rule_based_answer(q) ==
    LET question_lower == lower(q)
    IN IF \E i \in 1..Len(Categories) : contains(question_lower, Categories[i])
       THEN LET first == CHOOSE i \in 1..Len(Categories) :
                    /\ contains(question_lower, Categories[i])
                    /\ \A j \in 1..(i - 1) : ~contains(question_lower, Categories[j])
            IN CannedAnswer(Categories[first])
       ELSE None

\* Mutant of query_ai_model: the length test is off by one (> 11).
query_ai_model_strict(o) ==
    IF o.kind = "response"
    THEN LET a == strip(o.text)
         IN IF len(a) > MinAnswerLen + 1 THEN a ELSE None
    ELSE None

\* Mutant of query_ai_model: the except clause returns str(e).
query_ai_model_leaks(o) ==
    IF o.kind = "response"
    THEN LET a == strip(o.text)
         IN IF len(a) > MinAnswerLen THEN a ELSE None
    ELSE IF o.kind = "Exception" THEN o.detail ELSE None

\* Mutant of query_ai_model: response.text is returned without strip().
query_ai_model_untrimmed(o) ==
    IF o.kind = "response"
    THEN IF len(strip(o.text)) > MinAnswerLen THEN o.text ELSE None
    ELSE None

\* ------------------------------------------------------------ query_ai_model
\* The value query_ai_model returns for an upstream outcome: the stripped
\* text when it has more than 10 characters, None in every other case.
query_ai_model(o) ==
    IF o.kind = "response"
    THEN LET a == strip(o.text)
         IN IF len(a) > MinAnswerLen THEN a ELSE None
    ELSE None

\* if answer and len(answer.strip()) > 10 (lines 537 and 547)
Accepted(a) == truthy(a) /\ len(strip(a)) > MinAnswerLen

\* --------------------------------------------------------------- resolver
\* The code of get_ai_response_with_fallbacks between two suspension points,
\* as the stages it enters, the handle it queries next (wait) or the answer
\* it returns.
Returned(a, source) == [kind |-> "returned", text |-> a, source |-> source]

Segment(st, wait, ans) == [stages |-> st, wait |-> wait, answer |-> ans]

Prefix(stage, seg) == [seg EXCEPT !.stages = <<stage>> \o @]

\* Mutant of FromKeyword: the keyword answer is returned without the test
\* "if answer:".
FromKeyword_unchecked(q) ==
    Segment(<<"keyword">>, "none", Returned(get_rule_based_answer(q), "keyword"))


FromKeyword(q) ==
    LET a == get_rule_based_answer(q)
    IN IF truthy(a)
       THEN Segment(<<"keyword">>, "none", Returned(a, "keyword"))
       ELSE Segment(<<"keyword", "static">>, "none",
                    Returned(fallback_responses0, "static"))

\* Mutant of FromBackup: the backup stage queries the primary handle again.
FromBackup_same_handle(q) ==
    IF backup_model /\ GEMINI_BACKUP_API_KEY # NoKey
    THEN Segment(<<"backup">>, "model", NotResolved)
    ELSE Prefix("backup", FromKeyword(q))


FromBackup(q) ==
    IF backup_model /\ GEMINI_BACKUP_API_KEY # NoKey
    THEN Segment(<<"backup">>, "backup_model", NotResolved)
    ELSE Prefix("backup", FromKeyword(q))

\* Mutant of FromPrimary: the primary handle is queried without the test
\* "if model:".
FromPrimary_unguarded(q) == Segment(<<"primary">>, "model", NotResolved)

FromPrimary(q) ==
    IF model
    THEN Segment(<<"primary">>, "model", NotResolved)
    ELSE Prefix("primary", FromBackup(q))

\* Mutant of AfterPrimary: the accepted primary answer is not returned.
AfterPrimary_no_return(a, q) == FromBackup(q)

\* Lines 536 to 546: the primary query returned a.
AfterPrimary(a, q) ==
    IF Accepted(a)
    THEN Segment(<<>>, "none", Returned(a, "primary"))
    ELSE FromBackup(q)

\* Mutant of AfterBackup: the accepted backup answer is not returned.
AfterBackup_no_return(a, q) == FromKeyword(q)

\* Lines 546 to 554: the backup query returned a.
AfterBackup(a, q) ==
    IF Accepted(a)
    THEN Segment(<<>>, "none", Returned(a, "backup"))
    ELSE FromKeyword(q)

\* ---------------------------------------------------------------- platform
\* One call on the interaction: the method, the payload (the deferral, the
\* validation notice, the answer as an embed or as plain text, an error
\* notice) and the platform's result.
Call(call, what, result) == [call |-> call, what |-> what, result |-> result]

\* Mutant of is_done: the interaction is never taken as responded to.
is_done_never(log) == FALSE

\* interaction.response.is_done()
is_done(log) ==
    \E i \in 1..Len(log) :
        /\ log[i].call \in {"response.defer", "response.send_message"}
        /\ log[i].result = "ok"

\* The cross mark that starts the error notices.
Mark == "(x) "

\* send_error_message: one attempt to send the mark and error_msg, every
\* exception swallowed.
send_error_message(log, error_msg, res) ==
    IF is_done(log)
    THEN Append(log, Call("followup.send", Mark \o error_msg, res))
    ELSE Append(log, Call("response.send_message", Mark \o error_msg, res))

\* The error handlers see the error the library raised for a command as an
\* object with the attribute type, and, when it is a CommandInvokeError,
\* the attribute original; setattr adds an attribute.
setattr(obj, name, value) ==
    [f \in DOMAIN obj \cup {name} |-> IF f = name THEN value ELSE obj[f]]

hasattr(obj, name) == name \in DOMAIN obj

\* ask_question_error: the error is marked handled; reading error.original
\* of an error without that attribute raises AttributeError, which the
\* except clause logs (lines 679, 687 and 688).
ask_question_error(err, log, res) ==
    LET handled == setattr(err, "handled", TRUE)
    IN [error |-> handled,
        log |-> IF ~hasattr(err, "original") THEN log
                ELSE IF err.original = "NotFound" THEN log
                ELSE send_error_message(log,
                        IF err.type = "MissingPermissions"
                        THEN Mark \o "You don't have permission to use this command."
                        ELSE Mark \o "An error occurred while processing your command.",
                        res)]

\* Mutant of on_app_command_error: the test hasattr(error, 'handled') is
\* missing.
on_app_command_error_unguarded(err, log, res) ==
    IF ~hasattr(err, "original") THEN log
    ELSE IF err.original = "NotFound" THEN log
    ELSE IF is_done(log)
    THEN Append(log, Call("followup.send",
                          Mark \o "An unexpected error occurred. Please try again.", res))
    ELSE Append(log, Call("response.send_message",
                          Mark \o "An unexpected error occurred. Please try again.", res))

\* on_app_command_error (lines 731 to 751)
on_app_command_error(err, log, res) ==
    IF hasattr(err, "handled") THEN log
    ELSE IF ~hasattr(err, "original") THEN log
    ELSE IF err.original = "NotFound" THEN log
    ELSE IF is_done(log)
    THEN Append(log, Call("followup.send",
                          Mark \o "An unexpected error occurred. Please try again.", res))
    ELSE Append(log, Call("response.send_message",
                          Mark \o "An unexpected error occurred. Please try again.", res))

\* Mutant of send_answer_safely: the plain message is sent after the embed
\* whether or not the embed went out.
send_answer_safely_both(log, rs) ==
    LET l1 == Append(log, Call("followup.send", "embed", rs[1]))
        l2 == Append(l1, Call("followup.send", "plain", rs[2]))
    IN IF rs[2] \in {"ok", "NotFound"} THEN l2
       ELSE send_error_message(l2, "Could not send response. Please try again.",
                               rs[3])

\* send_answer_safely: the embed, on any exception the plain message, and on
\* an exception of that other than NotFound the error message.
send_answer_safely(log, rs) ==
    LET l1 == Append(log, Call("followup.send", "embed", rs[1]))
        l2 == Append(l1, Call("followup.send", "plain", rs[2]))
    IN IF rs[1] = "ok" THEN l1
       ELSE IF rs[2] \in {"ok", "NotFound"} THEN l2
       ELSE send_error_message(l2, "Could not send response. Please try again.",
                               rs[3])

\* The results the platform may give to consecutive calls on one
\* interaction: NotFound from the first call on once it is expired, and an
\* interaction that has answered NotFound stays expired.
Scripts(r, P, n) ==
    { rs \in [1..n -> P] :
        /\ expired[r] => rs[1] = "NotFound"
        /\ \A i \in 1..n : \A j \in i..n : rs[i] = "NotFound" => rs[j] = "NotFound" }

SawNotFound(log) == \E i \in 1..Len(log) : log[i].result = "NotFound"

PlatformResults == {"ok", "NotFound", "HTTPException"}

\* -------------------------------------------------------------------- Init
NoResponse == [path |-> "none"]

\* The module is imported (lines 44 to 47 and 99) and no command has arrived.
Imported ==
    \E pk \in PrimaryKeys, bk \in BackupKeys,
       perr \in {"ok", "configure", "GenerativeModel"}, berr \in BOOLEAN :
        LET c == configure_gemini(pk, bk, perr, berr)
        IN /\ GEMINI_API_KEY = pk
           /\ GEMINI_BACKUP_API_KEY = bk
           /\ model = c.model
           /\ backup_model = c.backup_model
           /\ api_key = c.api_key
           /\ pc = [r \in Reqs |-> "idle"]
           /\ question = [r \in Reqs |-> NoQuestion]
           /\ stages = [r \in Reqs |-> <<>>]
           /\ queries = [r \in Reqs |-> <<>>]
           /\ answer = [r \in Reqs |-> NotResolved]
           /\ io = [r \in Reqs |-> <<>>]
           /\ expired = [r \in Reqs |-> FALSE]
           /\ error = [r \in Reqs |-> NoError]

\* The commands are served by a process whose bot is connected and ready.
Init ==
    /\ Imported
    /\ DISCORD_TOKEN = "T"
    /\ attempt = 0
    /\ sup = "main"
    /\ web_task = "full"
    /\ bot_task = "ready"
    /\ listening = 1
    /\ http = NoResponse

\* ----------------------------------------------------------------- actions
\* The handler returns: log holds every platform call it made.
Finish(r, log) ==
    /\ pc' = [pc EXCEPT ![r] = "done"]
    /\ io' = [io EXCEPT ![r] = log]
    /\ expired' = [expired EXCEPT ![r] = @ \/ SawNotFound(log)]
    /\ UNCHANGED <<api_key, stages, queries, answer>>

\* Mutant of Continue: the backup query is awaited without the timeout and
\* its result never resumes the handler.
Continue_no_resume(r, seg, qs, log, rs) ==
    /\ stages' = [stages EXCEPT ![r] = @ \o seg.stages]
    /\ IF seg.wait = "none"
       THEN /\ answer' = [answer EXCEPT ![r] = seg.answer]
            /\ queries' = [queries EXCEPT ![r] = qs]
            /\ io' = [io EXCEPT ![r] = send_answer_safely(log, rs)]
            /\ pc' = [pc EXCEPT ![r] = "done"]
            /\ UNCHANGED api_key
       ELSE /\ api_key' = IF seg.wait = "backup_model"
                          THEN GEMINI_BACKUP_API_KEY ELSE api_key
            /\ queries' = [queries EXCEPT ![r] =
                             Append(qs, [handle |-> seg.wait, key |-> api_key',
                                         resp |-> Pending, ret |-> Pending,
                                         running |-> TRUE])]
            /\ pc' = [pc EXCEPT ![r] = IF seg.wait = "model"
                                       THEN "primary_wait" ELSE "suspended"]
            /\ io' = [io EXCEPT ![r] = log]
            /\ UNCHANGED answer
    /\ expired' = [expired EXCEPT ![r] = @ \/ SawNotFound(io'[r])]

\* The resolver runs the segment seg. qs is the request's query log and log
\* its platform log so far; rs are the platform's results for the sends.
\* A segment that queries a handle suspends in query_ai_model (line 601); the
\* backup segment first runs genai.configure (line 545). A segment that
\* returns an answer goes on, in ask_question, with send_answer_safely.
Continue(r, seg, qs, log, rs) ==
    /\ stages' = [stages EXCEPT ![r] = @ \o seg.stages]
    /\ IF seg.wait = "none"
       THEN /\ answer' = [answer EXCEPT ![r] = seg.answer]
            /\ queries' = [queries EXCEPT ![r] = qs]
            /\ io' = [io EXCEPT ![r] = send_answer_safely(log, rs)]
            /\ pc' = [pc EXCEPT ![r] = "done"]
            /\ UNCHANGED api_key
       ELSE /\ api_key' = IF seg.wait = "backup_model"
                          THEN GEMINI_BACKUP_API_KEY ELSE api_key
            /\ queries' = [queries EXCEPT ![r] =
                             Append(qs, [handle |-> seg.wait, key |-> api_key',
                                         resp |-> Pending, ret |-> Pending,
                                         running |-> TRUE])]
            /\ pc' = [pc EXCEPT ![r] = IF seg.wait = "model"
                                       THEN "primary_wait" ELSE "backup_wait"]
            /\ io' = [io EXCEPT ![r] = log]
            /\ UNCHANGED answer
    /\ expired' = [expired EXCEPT ![r] = @ \/ SawNotFound(io'[r])]

\* The upstream outcome o reaches the query the request is waiting on, and
\* query_ai_model returns. The upstream call runs generate_content in a
\* worker thread (asyncio.to_thread, line 602): when wait_for times out it
\* cancels the awaiting task, and the thread runs on until generate_content
\* returns.
Answered(qs, o) ==
    [qs EXCEPT ![Len(qs)].resp = o, ![Len(qs)].ret = query_ai_model(o),
               ![Len(qs)].running = (o.kind = "TimeoutError")]

\* Mutant of too_short: the question is measured with its whitespace.
too_short_untrimmed(q) == len(q) < MinQuestionLen

\* The test of line 504: not question or len(question.strip()) < 3
too_short(q) == len(q) = 0 \/ len(strip(q)) < MinQuestionLen

\* ask_question up to its first suspension point: defer, the input
\* validation, and the resolver up to its first model query.
ask_question(r, Q, P) ==
    /\ pc[r] = "idle"
    /\ \E q \in Q, rs \in Scripts(r, P, 4) :
        LET l0 == <<Call("response.defer", "defer", rs[1])>>
            l1 == Append(l0, Call("followup.send", "validation", rs[2]))
        IN /\ question' = [question EXCEPT ![r] = q]
           /\ UNCHANGED <<config, error, process>>
           /\ IF rs[1] = "NotFound" THEN Finish(r, l0)
              ELSE IF rs[1] # "ok"
                   THEN Finish(r, send_error_message(l0,
                            "An error occurred while processing your question.", rs[2]))
              ELSE IF too_short(q)
                   THEN IF rs[2] \in {"ok", "NotFound"}
                        THEN Finish(r, l1)
                        ELSE Finish(r, send_error_message(l1,
                                 "An error occurred while processing your question.",
                                 rs[3]))
                   ELSE Continue(r, FromPrimary(q), <<>>, l0,
                                 [i \in 1..3 |-> rs[i + 1]])

\* The primary query returns (lines 536 to 540).
primary_returns(r, U, P) ==
    /\ pc[r] = "primary_wait"
    /\ \E o \in U, rs \in Scripts(r, P, 3) :
        Continue(r, AfterPrimary(query_ai_model(o), question[r]),
                 Answered(queries[r], o), io[r], rs)
    /\ UNCHANGED <<config, question, error, process>>

\* The backup query returns (lines 546 to 550).
backup_returns(r, U, P) ==
    /\ pc[r] = "backup_wait"
    /\ \E o \in U, rs \in Scripts(r, P, 3) :
        Continue(r, AfterBackup(query_ai_model(o), question[r]),
                 Answered(queries[r], o), io[r], rs)
    /\ UNCHANGED <<config, question, error, process>>

\* generate_content returns in the worker thread of a query that timed
\* out; nothing awaits its result.
generate_content_returns(r) ==
    /\ \E k \in 1..Len(queries[r]) :
          /\ queries[r][k].resp.kind = "TimeoutError"
          /\ queries[r][k].running
          /\ queries' = [queries EXCEPT ![r][k].running = FALSE]
    /\ UNCHANGED <<config, api_key, pc, question, stages, answer, io, expired,
                   error, process>>

\* The errors the library may raise for a command: the callback raised
\* (CommandInvokeError, with the exception as original), or a check or a
\* conversion failed before the callback ran (no attribute original).
Errors ==
    { [type |-> "CommandInvokeError", original |-> "NotFound"],
      [type |-> "CommandInvokeError", original |-> "Exception"],
      [type |-> "MissingPermissions"],
      [type |-> "CommandOnCooldown"] }

\* The library raises err for a command and calls the error handlers: the
\* handler of the command when the command is /askquestion (own), then,
\* when it dispatches the event at all (global), on_app_command_error. The
\* callback may have deferred the interaction before it raised.
command_fails(r, E, P) ==
    /\ pc[r] = "idle"
    /\ \E err \in E, own \in BOOLEAN, global \in BOOLEAN, rs \in Scripts(r, P, 2) :
        \E deferred \in {d \in BOOLEAN : d => err.type = "CommandInvokeError"} :
          LET l0 == IF deferred
                    THEN <<Call("response.defer", "defer", "ok")>> ELSE <<>>
              h == IF own THEN ask_question_error(err, l0, rs[1])
                   ELSE [error |-> err, log |-> l0]
              l2 == IF global THEN on_app_command_error(h.error, h.log, rs[2])
                    ELSE h.log
          IN /\ error' = [error EXCEPT ![r] =
                            [kind |-> "raised", raised |-> err, own |-> own,
                             global |-> global, seen |-> h.error]]
             /\ Finish(r, l2)
    /\ UNCHANGED <<config, question, process>>

\* The requester's interaction is closed or expires.
Expire(r) ==
    /\ pc[r] # "done"
    /\ ~expired[r]
    /\ expired' = [expired EXCEPT ![r] = TRUE]
    /\ UNCHANGED <<config, api_key, pc, question, stages, queries, answer, io,
                   error, process>>

Handle(R, Q, U, P) ==
    \E r \in R :
        \/ ask_question(r, Q, P)
        \/ primary_returns(r, U, P)
        \/ backup_returns(r, U, P)
        \/ generate_content_returns(r)

\* One invocation, every upstream outcome and every platform result.
Next ==
    \/ Handle({1}, Questions, Outcomes, PlatformResults)
    \/ Expire(1)

Spec == Init /\ [][Next]_vars

\* One invocation in which every model query that is awaited returns:
\* asyncio.wait_for ends the await after 10 seconds at the latest
\* (lines 601 to 604).
NextLive ==
    \/ Handle({1}, Questions, CoarseOutcomes, PlatformResults)
    \/ Expire(1)

SpecLive ==
    /\ Init
    /\ [][NextLive]_vars
    /\ WF_vars(primary_returns(1, CoarseOutcomes, PlatformResults))
    /\ WF_vars(backup_returns(1, CoarseOutcomes, PlatformResults))

\* One command that fails with an error of the library.
NextError == \E r \in {1} : command_fails(r, Errors, PlatformResults)

SpecError == Init /\ [][NextError]_vars

\* NumReqs invocations in flight together, against a platform that accepts
\* every call.
NextConc == Handle(Reqs, ValidQuestions, CoarseOutcomes, {"ok"})

SpecConc == Init /\ [][NextConc]_vars

\* NumReqs invocations one after the other: a handler starts or resumes
\* only while no other is in flight.
Alone == { r \in Reqs : \A o \in Reqs \ {r} : pc[o] \in {"idle", "done"} }

NextSeq == Handle(Alone, ValidQuestions, CoarseOutcomes, {"ok"})

SpecSeq == Init /\ [][NextSeq]_vars

\* One invocation with every combination of keywords in the question.
NextKeyword == Handle({1}, KeywordQuestions, CoarseOutcomes, {"ok"})

SpecKeyword == Init /\ [][NextKeyword]_vars

\* ------------------------------------------------------------- the process
\* The process from the call of run_with_fallbacks on: the supervisor loop,
\* the two tasks of main and the HTTP handlers.
Tokens == {NoKey, "T"}

\* get_env_var, for the value env of the variable key in the environment
\* (NoKey: unset or empty). The ValueError raised for a missing
\* DISCORD_TOKEN (line 39) is raised inside the function's own try block
\* and caught by its except clause, which returns the default (lines 41 to
\* 43): the function returns in every case.
get_env_var(env, key, default, required) ==
    LET value == IF env = NoKey THEN default ELSE env
    IN IF required /\ value = NoKey /\ key = "DISCORD_TOKEN"
       THEN default
       ELSE value

\* The modes in which an HTTP server of the process is listening: the full
\* server with all routes of setup_routes, the full server with the /ping
\* route alone (lines 270 to 275), the minimal server of run_web_server and
\* the server of emergency_main.
ServingModes == {"full", "ping_only", "minimal", "emergency"}

Paths == {"/ping", "/health"}

Response(status, body) == [status |-> status, body |-> body]

\* aiohttp's answer on a path without route
NotRouted == Response(404, "Not Found")

\* The text of the /ping responses, "Bot is Online" and a sparkle sign.
Online == "Bot is Online*"

\* WebServer.ping (lines 279 to 285)
ping == Response(200, Online)

\* WebServer.health_check (lines 312 to 349); ready is bot.is_ready()
health_check(ready) ==
    IF ready THEN Response(200, "healthy") ELSE Response(503, "degraded")

\* The handlers of the minimal server (lines 781 and 782)
minimal_ping == Response(200, Online)
minimal_health == Response(200, "minimal_mode")

\* Mutant of ping_handler: the emergency server names its mode.
ping_handler_names_mode == Response(200, "emergency_mode")

\* The handlers of the emergency server (lines 909 to 917)
ping_handler == Response(200, Online)
health_handler == Response(503, "emergency_mode")

\* The response of the server in the mode to GET path.
Route(mode, path, ready) ==
    CASE mode = "full" ->
            IF path = "/ping" THEN ping ELSE health_check(ready)
      [] mode = "ping_only" ->
            IF path = "/ping" THEN ping ELSE NotRouted
      [] mode = "minimal" ->
            IF path = "/ping" THEN minimal_ping ELSE minimal_health
      [] mode = "emergency" ->
            IF path = "/ping" THEN ping_handler ELSE health_handler

\* The process starts: run_with_fallbacks enters its first attempt, main
\* has created its two tasks (lines 831 to 834).
InitProcess ==
    /\ Imported
    /\ \E env \in Tokens :
          DISCORD_TOKEN = get_env_var(env, "DISCORD_TOKEN", NoKey, TRUE)
    /\ attempt = 0
    /\ sup = "main"
    /\ web_task = "start"
    /\ bot_task = "start"
    /\ listening = 0
    /\ http = NoResponse

\* What run_web_server comes to (lines 756 to 794): one of its loops, with
\* the full server (all routes or /ping alone) or on an exception the
\* minimal server listening, or the exception of the minimal server.
WebOutcomes == {"full", "ping_only", "minimal", "failed"}

\* The servers listening after a server start came to the outcome w.
Bound(n, w) == IF w = "failed" THEN n ELSE n + 1

\* run_web_server up to one of its loops: the full server, with all routes
\* or with /ping alone, on an exception the minimal server, and on an
\* exception of that the task ends with the exception.
run_web_server ==
    /\ sup = "main"
    /\ web_task = "start"
    /\ \E w \in WebOutcomes :
          /\ web_task' = w
          /\ listening' = Bound(listening, w)
    /\ UNCHANGED <<handlers, DISCORD_TOKEN, attempt, sup, bot_task, http>>

\* run_discord_bot up to bot.start: without a token it raises ValueError
\* (line 810), with one it awaits bot.start (line 813).
run_discord_bot ==
    /\ sup = "main"
    /\ bot_task = "start"
    /\ bot_task' = IF DISCORD_TOKEN = NoKey THEN "failed" ELSE "connecting"
    /\ UNCHANGED <<handlers, DISCORD_TOKEN, attempt, sup, web_task, listening, http>>

\* The bot has logged in and is ready (line 694).
on_ready ==
    /\ sup = "main"
    /\ bot_task = "connecting"
    /\ bot_task' = "ready"
    /\ UNCHANGED <<handlers, DISCORD_TOKEN, attempt, sup, web_task, listening, http>>

\* bot.start raises: LoginFailure, PrivilegedIntentsRequired or any other
\* exception, re-raised by run_discord_bot (lines 815 to 823).
bot_start_raises ==
    /\ sup = "main"
    /\ bot_task \in {"connecting", "ready"}
    /\ bot_task' = "failed"
    /\ UNCHANGED <<handlers, DISCORD_TOKEN, attempt, sup, web_task, listening, http>>

\* Mutant of gather: the wait ends with the first task that fails.
gather_first_exception(web, bot) == web = "failed" \/ bot = "failed"

\* asyncio.gather(*tasks, return_exceptions=True) (line 837) returns when
\* both tasks have ended. The HTTP server task ends only with an exception
\* (lines 772, 790, 794); the bot task, in this model, likewise.
gather(web, bot) == web = "failed" /\ bot = "failed"

\* Mutant of retries_left: one more attempt is granted.
retries_left_one_more(a) == a < max_retries

\* The test of line 888 on the loop variable.
retries_left(a) == a < max_retries - 1

\* main from the return of asyncio.gather on (lines 837 to 870), and the
\* except clause of run_with_fallbacks (lines 885 to 895). The results are
\* looked at in the order of the tasks. An exception of the HTTP server
\* task is raised again (line 855). An exception of the bot task alone
\* makes main await run_web_server a second time (line 850): the outcome w
\* of that call is a server that listens, main staying in the call, or an
\* exception, raised again (line 853). Whether the port can be bound twice
\* is the platform's matter (PORT may be 0), so w is not restricted by the
\* servers already listening. On every raise bot.close() runs in the
\* finally clause and run_with_fallbacks retries or enters emergency mode.
main ==
    /\ sup = "main"
    /\ gather(web_task, bot_task)
    /\ \E w \in WebOutcomes :
          LET again == web_task # "failed"
              raised == ~again \/ w = "failed"
          IN /\ listening' = IF again THEN Bound(listening, w) ELSE listening
             /\ bot_task' = IF raised THEN "closed" ELSE bot_task
             /\ IF ~raised
                THEN sup' = "keep_web" /\ web_task' = w
                ELSE IF retries_left(attempt)
                THEN sup' = "sleep" /\ UNCHANGED web_task
                ELSE sup' = "emergency" /\ web_task' = "start"
    /\ UNCHANGED <<handlers, DISCORD_TOKEN, attempt, http>>

\* run_with_fallbacks after the retry delay: the next attempt (line 877).
run_with_fallbacks ==
    /\ sup = "sleep"
    /\ attempt' = attempt + 1
    /\ sup' = "main"
    /\ web_task' = "start"
    /\ bot_task' = "start"
    /\ UNCHANGED <<handlers, DISCORD_TOKEN, listening, http>>

\* emergency_main: the emergency server listens, or it raises and the
\* process ends (lines 935 to 937, 896 to 898, 946 to 953).
emergency_main ==
    /\ sup = "emergency"
    /\ web_task = "start"
    /\ \/ web_task' = "emergency" /\ listening' = listening + 1 /\ UNCHANGED sup
       \/ web_task' = "failed" /\ sup' = "exited" /\ UNCHANGED listening
    /\ UNCHANGED <<handlers, DISCORD_TOKEN, attempt, bot_task, http>>

\* The user interrupts the process. During an attempt asyncio.run cancels
\* the tasks, bot.close() runs in the finally clause of main and
\* run_with_fallbacks leaves its loop (lines 857, 882 to 884); during the
\* retry delay or in emergency mode the interrupt leaves run_with_fallbacks
\* through the except clause it was raised in (line 944). In every case
\* the process ends and its servers with it.
KeyboardInterrupt ==
    /\ sup \in {"main", "keep_web", "sleep", "emergency"}
    /\ sup' = "stopped"
    /\ web_task' = "cancelled"
    /\ bot_task' = "closed"
    /\ listening' = 0
    /\ UNCHANGED <<handlers, DISCORD_TOKEN, attempt, http>>

\* A listening server answers GET path.
GET(path) ==
    /\ web_task \in ServingModes
    /\ http' = [path |-> path, mode |-> web_task, ready |-> (bot_task = "ready"),
                bot |-> bot_task,
                response |-> Route(web_task, path, bot_task = "ready")]
    /\ UNCHANGED <<handlers, DISCORD_TOKEN, attempt, sup, web_task, bot_task,
                   listening>>

NextProcess ==
    \/ run_web_server
    \/ run_discord_bot
    \/ on_ready
    \/ bot_start_raises
    \/ main
    \/ run_with_fallbacks
    \/ emergency_main
    \/ KeyboardInterrupt
    \/ \E path \in Paths : GET(path)

SpecProcess == InitProcess /\ [][NextProcess]_vars

\* ================================================================== claims
\* The resolver of request r has returned to ask_question.
Resolved(r) == answer[r] # NotResolved

\* The resolver of request r was entered and is not suspended in a query.
ResolverDone(r) == stages[r] # <<>> /\ pc[r] = "done"

\* The k-th query of request r has its upstream outcome.
HasOutcome(r, k) == k \in 1..Len(queries[r]) /\ queries[r][k].resp # Pending

\* The upstream outcome o carries a candidate of more than 10 characters
\* after trimming: the candidates the code's gate lets through.
PassesGate(o) == o.kind = "response" /\ o.text.core > 10

\* The candidate of the upstream outcome o.
Candidate(o) == [o.text EXCEPT !.pad = 0]

\* The request's query on the handle h, 0 when there is none.
QueryOn(r, h) ==
    IF \E k \in 1..Len(queries[r]) : queries[r][k].handle = h
    THEN CHOOSE k \in 1..Len(queries[r]) : queries[r][k].handle = h
    ELSE 0

\* C1 (totality): whenever the resolver has run to its end, whatever the
\* primary and the backup query ended in and whether they were configured,
\* it has returned a text, and that text is not empty.
C1_Totality ==
    \A r \in Reqs :
        ResolverDone(r) =>
            /\ answer[r].kind = "returned"
            /\ answer[r].text.kind = "str"
            /\ answer[r].text.core + answer[r].text.pad > 0

\* The primary query timed out, the backup answered with an empty text, and
\* the resolver returned.
C1_Witness ==
    \E r \in Reqs :
        /\ ResolverDone(r)
        /\ Len(queries[r]) = 2
        /\ queries[r][1].resp.kind = "TimeoutError"
        /\ queries[r][2].resp.kind = "response"
        /\ queries[r][2].resp.text.core = 0
        /\ Resolved(r)

\* C2 (bounded answer): the text the resolver returns is never longer than
\* the platform's bound on one chat message.
C2_Bounded ==
    \A r \in Reqs :
        Resolved(r) => answer[r].text.core + answer[r].text.pad <= MessageBound

\* C3 (short-circuit): when the primary query ends in a candidate that
\* passes the gate, the resolver returns that candidate with source
\* primary, and it entered no stage and issued no query after the primary.
C3_ShortCircuit ==
    \A r \in Reqs :
        LET k == QueryOn(r, "model")
        IN (k # 0 /\ HasOutcome(r, k) /\ PassesGate(queries[r][k].resp)) =>
            /\ answer[r] = Returned(Candidate(queries[r][k].resp), "primary")
            /\ stages[r] = <<"primary">>
            /\ Len(queries[r]) = 1

\* The primary answered with an acceptable candidate while a backup model
\* was configured.
C3_Witness ==
    \E r \in Reqs :
        /\ backup_model /\ GEMINI_BACKUP_API_KEY # NoKey
        /\ QueryOn(r, "model") = 1
        /\ HasOutcome(r, 1)
        /\ PassesGate(queries[r][1].resp)
        /\ pc[r] = "done"

\* C4 (backup answer): when the primary query ends in the timeout or in an
\* exception and the backup query ends in a candidate that passes the gate,
\* the resolver returns the backup's candidate with source backup, and
\* entered neither the keyword nor the static stage.
C4_BackupAnswer ==
    \A r \in Reqs :
        LET p == QueryOn(r, "model")
            b == QueryOn(r, "backup_model")
        IN (/\ p # 0 /\ b # 0 /\ HasOutcome(r, b)
            /\ queries[r][p].resp.kind \in {"TimeoutError", "Exception"}
            /\ PassesGate(queries[r][b].resp)) =>
            /\ answer[r] = Returned(Candidate(queries[r][b].resp), "backup")
            /\ stages[r] = <<"primary", "backup">>

\* The primary raised, the backup answered with a padded acceptable text.
C4_Witness ==
    \E r \in Reqs :
        /\ Len(queries[r]) = 2
        /\ queries[r][1].handle = "model"
        /\ queries[r][1].resp.kind = "Exception"
        /\ HasOutcome(r, 2)
        /\ PassesGate(queries[r][2].resp)
        /\ queries[r][2].resp.text.pad > 0
        /\ pc[r] = "done"

StageRank(st) ==
    CASE st = "primary" -> 1 [] st = "backup" -> 2
      [] st = "keyword" -> 3 [] st = "static" -> 4

HandleRank(h) == IF h = "model" THEN 1 ELSE 2

\* C5 (forward order): the stages a request enters are strictly increasing
\* in the order primary, backup, keyword, static; each handle is queried at
\* most once; and when a stage is entered, the query of every earlier stage
\* has ended in something the gate does not pass, and the static stage is
\* entered only for a question without keyword.
C5_ForwardOnly ==
    \A r \in Reqs :
        /\ \A i, j \in 1..Len(stages[r]) :
              i < j => StageRank(stages[r][i]) < StageRank(stages[r][j])
        /\ \A i, j \in 1..Len(queries[r]) :
              i < j => HandleRank(queries[r][i].handle) < HandleRank(queries[r][j].handle)
        /\ Len(queries[r]) <= 2
        /\ \A j \in 1..Len(stages[r]) : \A k \in 1..Len(queries[r]) :
              HandleRank(queries[r][k].handle) < StageRank(stages[r][j]) =>
                  /\ queries[r][k].resp # Pending
                  /\ ~PassesGate(queries[r][k].resp)
        /\ (\E j \in 1..Len(stages[r]) : stages[r][j] = "static") =>
              question[r].kws = {}

\* Both models were queried and a request went through all four stages.
C5_Witness ==
    \E r \in Reqs :
        /\ stages[r] = <<"primary", "backup", "keyword", "static">>
        /\ Len(queries[r]) = 2

\* The stage that queries the handle h.
StageOf(h) == IF h = "model" THEN "primary" ELSE "backup"

\* The k-th query of request r ended in a text that the resolver returned as
\* the final answer of the query's stage.
ReturnedByStage(r, k) ==
    answer[r] = Returned(Candidate(queries[r][k].resp), StageOf(queries[r][k].handle))

\* The resolver did not return from the stage of the k-th query of request r.
RejectedByStage(r, k) ==
    ~(answer[r].kind = "returned" /\ answer[r].source = StageOf(queries[r][k].handle))

\* C6 (hedge rule, as claimed): a candidate with a hedge phrase and without
\* the marker phrase is not returned by its stage; a candidate with a hedge
\* phrase and the marker phrase, of 10 or more characters, is.
C6_HedgeRule ==
    \A r \in Reqs : \A k \in 1..Len(queries[r]) :
        queries[r][k].resp.kind = "response" =>
            LET t == queries[r][k].resp.text
            IN /\ (t.hedge /\ ~t.marker) => RejectedByStage(r, k)
               /\ (t.hedge /\ t.marker /\ t.core >= 10) => ReturnedByStage(r, k)

\* C7 (length rule, as claimed): a candidate is rejected when it has fewer
\* than 10 characters, and a hedge-free candidate of 10 or more characters
\* is returned by its stage.
C7_LengthRule_Claimed ==
    \A r \in Reqs : \A k \in 1..Len(queries[r]) :
        queries[r][k].resp.kind = "response" =>
            LET t == queries[r][k].resp.text
            IN /\ t.core < 10 => RejectedByStage(r, k)
               /\ (t.core >= 10 /\ ~t.hedge) => ReturnedByStage(r, k)

\* C7 (length rule, amended): a candidate is rejected for its length exactly
\* when it has 10 or fewer characters after trimming, and a hedge-free
\* candidate of 11 or more characters after trimming is returned, trimmed,
\* as the final answer of its stage.
C7_LengthRule ==
    \A r \in Reqs : \A k \in 1..Len(queries[r]) :
        queries[r][k].resp.kind = "response" =>
            LET t == queries[r][k].resp.text
            IN /\ t.core <= 10 <=> RejectedByStage(r, k)
               /\ (t.core >= 11 /\ ~t.hedge) => ReturnedByStage(r, k)

\* The primary answered with 10 characters and some whitespace and was
\* rejected; the backup answered with 11 characters and was returned.
C7_Witness ==
    \E r \in Reqs :
        /\ Len(queries[r]) = 2
        /\ queries[r][1].resp.kind = "response"
        /\ queries[r][1].resp.text.core = 10
        /\ queries[r][1].resp.text.pad > 0
        /\ queries[r][2].resp.kind = "response"
        /\ queries[r][2].resp.text.core = 11
        /\ ~queries[r][2].resp.text.hedge
        /\ answer[r].kind = "returned"
        /\ answer[r].source = "backup"

\* C8 (request-scoped credentials): no step changes the key genai is
\* configured with, and every query on the primary handle runs under the
\* primary key.
C8_RequestScoped ==
    [][/\ api_key' = api_key
       /\ \A r \in Reqs : \A k \in 1..Len(queries'[r]) :
             queries'[r][k].handle = "model" => queries'[r][k].key = GEMINI_API_KEY]_vars

\* The key a query on the handle h runs under when its call runs alone:
\* the primary handle under the key of configure_gemini, the backup handle
\* under the key the call configures itself.
SoloKey(h) == IF h = "model" THEN GEMINI_API_KEY ELSE GEMINI_BACKUP_API_KEY

\* The answer of a call that runs alone against the outcomes of its queries.
SoloAnswer(r) ==
    LET p == QueryOn(r, "model")
        b == QueryOn(r, "backup_model")
    IN IF p # 0 /\ PassesGate(queries[r][p].resp)
       THEN Returned(Candidate(queries[r][p].resp), "primary")
       ELSE IF b # 0 /\ PassesGate(queries[r][b].resp)
       THEN Returned(Candidate(queries[r][b].resp), "backup")
       ELSE IF question[r].kws # {}
       THEN Returned(get_rule_based_answer(question[r]), "keyword")
       ELSE Returned(fallback_responses0, "static")

\* C9 (no cross-talk): every query of every call runs under the key it
\* would run under alone, and every finished call has the answer it would
\* have alone.
C9_NoCrossTalk ==
    \A r \in Reqs :
        /\ \A k \in 1..Len(queries[r]) :
              queries[r][k].key = SoloKey(queries[r][k].handle)
        /\ ResolverDone(r) => answer[r] = SoloAnswer(r)

\* C10 (cancellation): once the platform has answered NotFound to a call of
\* the handler, the handler makes no further platform call, and a NotFound
\* on the deferral leaves the resolver unentered.
C10_Cancellation ==
    \A r \in Reqs : \A i \in 1..Len(io[r]) :
        io[r][i].result = "NotFound" =>
            /\ i = Len(io[r])
            /\ (i = 1 => stages[r] = <<>>)

\* The question of request r passed the input validation.
ValidAsked(r) ==
    question[r] # NoQuestion /\ question[r].core >= MinQuestionLen

\* The platform calls of request r that delivered a message to the requester.
Delivered(r) ==
    { i \in 1..Len(io[r]) :
        io[r][i].call # "response.defer" /\ io[r][i].result = "ok" }

\* The platform calls of request r that carried the final answer.
AnswerSends(r) ==
    { i \in 1..Len(io[r]) : io[r][i].what \in {"embed", "plain"} }

\* C11 (one answer per question): for a valid question at most one message
\* is ever delivered to the requester, and when a send of the answer
\* succeeds, the resolver has returned the final answer and that send is the
\* one message delivered.
C11_OneAnswer ==
    \A r \in Reqs :
        ValidAsked(r) =>
            /\ Cardinality(Delivered(r)) <= 1
            /\ \A i \in AnswerSends(r) :
                  io[r][i].result = "ok" =>
                      /\ Delivered(r) = {i}
                      /\ Resolved(r)

\* The embed was refused, the plain message carrying the answer went out.
C11_Witness ==
    \E r \in Reqs :
        /\ ValidAsked(r)
        /\ Len(io[r]) = 3
        /\ io[r][2].what = "embed" /\ io[r][2].result = "HTTPException"
        /\ io[r][3].what = "plain" /\ io[r][3].result = "ok"

\* No model query of request r ended in a candidate that passes the gate.
ModelsFailed(r) ==
    \A k \in 1..Len(queries[r]) :
        queries[r][k].resp # Pending /\ ~PassesGate(queries[r][k].resp)

\* The first category, in the order verification, payment, task, rules, of
\* which the question contains a keyword.
FirstCategory(q) ==
    IF "verification" \in q.kws THEN "verification"
    ELSE IF "payment" \in q.kws THEN "payment"
    ELSE IF "task" \in q.kws THEN "task"
    ELSE IF "rules" \in q.kws THEN "rules"
    ELSE "none"

\* C12 (keyword order): when neither model stage gave an answer and the
\* question contains a keyword, in any spelling, the resolver returns, with
\* source keyword, the canned answer of the first category in the order
\* verification, payment, task, rules; so a question containing "verify"
\* gets the verification answer whatever other keywords it contains.
C12_KeywordOrder ==
    \A r \in Reqs :
        (ResolverDone(r) /\ ModelsFailed(r) /\ question[r].kws # {}) =>
            /\ answer[r].kind = "returned"
            /\ answer[r].source = "keyword"
            /\ answer[r].text.id = FirstCategory(question[r])

\* Both models failed on a question that contains "Verify" and keywords of
\* the three other categories.
C12_Witness ==
    \E r \in Reqs :
        /\ ResolverDone(r)
        /\ Len(queries[r]) = 2
        /\ ModelsFailed(r)
        /\ question[r].kws = {"verification", "payment", "task", "rules"}
        /\ "verification" \in question[r].upper
        /\ answer[r].text.id = "verification"

\* C13 (static fallback): when neither model stage gave an answer, failed
\* or not configured, and the question contains no keyword, the resolver
\* returns with source static one fixed text, the same for every question,
\* and that text refers to the moderator and to the support channel.
C13_StaticFallback ==
    \A r \in Reqs :
        (ResolverDone(r) /\ ModelsFailed(r) /\ question[r].kws = {}) =>
            /\ answer[r] =
                  [kind |-> "returned", source |-> "static",
                   text |-> [kind |-> "str", core |-> 140, pad |-> 0,
                             hedge |-> FALSE, marker |-> TRUE,
                             id |-> "fallback_responses[0]"]]
            /\ {"<@703280080213901342>", "<#1379815484056277044>"}
                  \subseteq Mentions(answer[r].text)

\* No model is configured and a question of three characters without
\* keyword got the static text.
C13_Witness ==
    \E r \in Reqs :
        /\ ResolverDone(r)
        /\ queries[r] = <<>>
        /\ question[r].core = MinQuestionLen
        /\ question[r].kws = {}
        /\ answer[r].source = "static"

\* The upstream behaved as a deterministic stub towards the calls a and b
\* with the same question: both handles name the endpoint gemini-1.5-flash
\* (lines 81 and 91) and the prompt is a function of the question, so two
\* queries under the same key ended in the same outcome.
Deterministic(a, b) ==
    \A r, o \in {a, b} : \A i \in 1..Len(queries[r]) : \A j \in 1..Len(queries[o]) :
        queries[r][i].key = queries[o][j].key =>
            queries[r][i].resp = queries[o][j].resp

\* C14 (idempotence): two calls of the resolver with the same question, run
\* one after the other against a deterministic stub, return the same text
\* from the same stage.
C14_Idempotent ==
    \A a, b \in Reqs :
        (/\ ResolverDone(a) /\ ResolverDone(b)
         /\ question[a] = question[b]
         /\ Deterministic(a, b)) =>
            /\ answer[a].text = answer[b].text
            /\ answer[a].source = answer[b].source

\* The upstream call of the k-th query of request r timed out or raised.
QueryFailed(r, k) ==
    queries[r][k].resp.kind \in {"TimeoutError", "Exception"}

\* C15 (failure handling of the model query): when the upstream call times
\* out or raises, query_ai_model returns the no-answer value, the handle is
\* not queried again, the resolver goes on to a later stage instead of
\* ending with the exception, and the exception's text is neither the value
\* returned by the query nor the answer sent to the requester.
C15_QueryFailure ==
    \A r \in Reqs : \A k \in 1..Len(queries[r]) :
        QueryFailed(r, k) =>
            /\ queries[r][k].ret = [kind |-> "None"]
            /\ \A j \in 1..Len(queries[r]) :
                  j # k => queries[r][j].handle # queries[r][k].handle
            /\ \E i \in 1..Len(stages[r]) :
                  StageRank(stages[r][i]) > HandleRank(queries[r][k].handle)
            /\ Resolved(r) => answer[r].text.id # "exception"

\* The primary call raised, the backup call timed out, and the answer of a
\* later stage went out.
C15_Witness ==
    \E r \in Reqs :
        /\ Len(queries[r]) = 2
        /\ queries[r][1].resp.kind = "Exception"
        /\ queries[r][2].resp.kind = "TimeoutError"
        /\ Resolved(r)
        /\ \E i \in AnswerSends(r) : io[r][i].result = "ok"

\* C16 (raw text, as claimed): a successful upstream call makes
\* query_ai_model return the trimmed text whatever its length.
C16_RawText_Claimed ==
    \A r \in Reqs : \A k \in 1..Len(queries[r]) :
        queries[r][k].resp.kind = "response" =>
            queries[r][k].ret = [queries[r][k].resp.text EXCEPT !.pad = 0]

\* C16 (raw text, amended): a successful upstream call makes query_ai_model
\* return the trimmed text, otherwise unchanged, when the trimmed text has
\* more than 10 characters, and the no-answer value when it has 10 or fewer.
C16_RawText ==
    \A r \in Reqs : \A k \in 1..Len(queries[r]) :
        queries[r][k].resp.kind = "response" =>
            LET t == queries[r][k].resp.text
            IN /\ t.core > 10 => queries[r][k].ret = [t EXCEPT !.pad = 0]
               /\ t.core <= 10 => queries[r][k].ret = [kind |-> "None"]

\* One query returned a padded text of more than 2000 characters trimmed,
\* another returned the no-answer value for a text of 10 characters.
C16_Witness ==
    \E r \in Reqs :
        /\ Len(queries[r]) = 2
        /\ queries[r][1].resp.kind = "response"
        /\ queries[r][1].resp.text.core = 10
        /\ queries[r][1].ret = [kind |-> "None"]
        /\ queries[r][2].resp.kind = "response"
        /\ queries[r][2].resp.text.core > MessageBound
        /\ queries[r][2].resp.text.pad > 0
        /\ queries[r][2].ret.kind = "str"

\* C17 (configuration gating): without a primary credential no query is
\* made on the primary handle, and a resolver that has a backup handle and
\* credential goes from the primary stage straight to the backup stage and
\* queries the backup handle under the backup credential; with neither
\* credential no model query is made and the answer comes from the keyword
\* or the static stage.
C17_Gating ==
    \A r \in Reqs :
        /\ GEMINI_API_KEY = "" =>
              \A k \in 1..Len(queries[r]) : queries[r][k].handle # "model"
        /\ (/\ GEMINI_API_KEY = "" /\ GEMINI_BACKUP_API_KEY # ""
            /\ backup_model /\ stages[r] # <<>>) =>
              /\ Len(stages[r]) >= 2
              /\ stages[r][1] = "primary" /\ stages[r][2] = "backup"
              /\ Len(queries[r]) = 1
              /\ queries[r][1].handle = "backup_model"
              /\ queries[r][1].key = GEMINI_BACKUP_API_KEY
        /\ (GEMINI_API_KEY = "" /\ GEMINI_BACKUP_API_KEY = "") =>
              /\ queries[r] = <<>>
              /\ ResolverDone(r) => answer[r].source \in {"keyword", "static"}

\* Without a primary credential the backup was queried under the backup
\* credential and gave the answer.
C17_Witness ==
    \E r \in Reqs :
        /\ GEMINI_API_KEY = ""
        /\ Len(queries[r]) = 1
        /\ queries[r][1].handle = "backup_model"
        /\ queries[r][1].key = "K2"
        /\ Resolved(r)
        /\ answer[r].source = "backup"

\* C18 (startup policy): without DISCORD_TOKEN the process does not stay
\* up: once the bot task has ended for the missing token, either no HTTP
\* server of the process is listening or main is about to end.
C18_StartupPolicy ==
    (DISCORD_TOKEN = "" /\ bot_task \in {"failed", "closed"}) =>
        \/ web_task \notin {"full", "ping_only", "minimal", "emergency"}
        \/ ENABLED main

\* C19 (health endpoint): in the full, the minimal and the emergency mode
\* GET /health is answered 200 when the bot is ready and 503 when it is not.
C19_Health ==
    (http.path = "/health" /\ http.mode \in {"full", "minimal", "emergency"}) =>
        http.response.status = IF http.ready THEN 200 ELSE 503

\* C20 (ping endpoint): whatever the mode of the listening server, GET /ping
\* is answered 200 with one fixed body.
C20_Ping ==
    http.path = "/ping" =>
        http.response = [status |-> 200, body |-> "Bot is Online*"]

\* Every attempt of main has failed and the emergency server answered
\* GET /ping.
C20_Witness ==
    /\ http.path = "/ping"
    /\ http.mode = "emergency"
    /\ attempt = max_retries - 1

\* The upstream calls that are running, and the queries that await one.
InFlight ==
    { c \in Reqs \X (1..2) :
        c[2] <= Len(queries[c[1]]) /\ queries[c[1]][c[2]].running }

Awaiting ==
    { c \in Reqs \X (1..2) :
        c[2] <= Len(queries[c[1]]) /\ queries[c[1]][c[2]].resp = [kind |-> "pending"] }

\* C21 (abandoned on timeout): no upstream call of a query that has timed
\* out is still running, so there are never more upstream calls in flight
\* than queries awaiting a result.
C21_Abandoned ==
    /\ \A r \in Reqs : \A k \in 1..Len(queries[r]) :
          queries[r][k].resp.kind = "TimeoutError" => ~queries[r][k].running
    /\ Cardinality(InFlight) <= Cardinality(Awaiting)

\* C22 (distinct backup): a query on the backup handle is made only when a
\* backup credential is configured and differs from the primary credential.
C22_DistinctBackup ==
    \A r \in Reqs : \A k \in 1..Len(queries[r]) :
        queries[r][k].handle = "backup_model" =>
            /\ GEMINI_BACKUP_API_KEY # ""
            /\ GEMINI_BACKUP_API_KEY # GEMINI_API_KEY

\* Request r is suspended inside the resolver.
Suspended(r) == pc[r] \notin {"idle", "done"}

\* C23 (termination): a handler is suspended only in one of the at most two
\* model queries of the resolver, with that query awaiting its result, and
\* every suspended handler eventually returns.
C23_Termination ==
    /\ [](\A r \in Reqs :
            Suspended(r) =>
                /\ pc[r] \in {"primary_wait", "backup_wait"}
                /\ Len(queries[r]) \in 1..2
                /\ queries[r][Len(queries[r])].resp = [kind |-> "pending"]
                /\ answer[r] = [kind |-> "NotResolved"])
    /\ \A r \in Reqs : Suspended(r) ~> pc[r] = "done"

\* The primary query timed out, the backup query raised, and the handler
\* returned with an answer.
C23_Witness ==
    \E r \in Reqs :
        /\ pc[r] = "done"
        /\ Len(queries[r]) = 2
        /\ queries[r][1].resp.kind = "TimeoutError"
        /\ queries[r][2].resp.kind = "Exception"
        /\ answer[r].kind = "returned"

\* The error notices sent for request r, as positions of its platform log.
Notices(r) ==
    { i \in 1..Len(io[r]) :
        io[r][i].what \notin {"defer", "validation", "embed", "plain"} }

\* A command error whose cause is an expired interaction.
CausedByNotFound(err) ==
    err.type = "CommandInvokeError" /\ err.original = "NotFound"

\* The text t is msg behind one or two cross marks.
Says(t, msg) == t \in {"(x) " \o msg, "(x) (x) " \o msg}

\* C24 (messages of the command's error handler): when /askquestion fails
\* with MissingPermissions the handler sends the notice that the requester
\* has no permission to use the command, and for every other error whose
\* cause is not an expired interaction it sends the generic notice.
C24_HandlerMessages ==
    \A r \in Reqs :
        (error[r].kind = "raised" /\ error[r].own) =>
            LET err == error[r].raised
            IN /\ err.type = "MissingPermissions" =>
                    \E i \in Notices(r) :
                        Says(io[r][i].what,
                             "You don't have permission to use this command.")
               /\ (err.type # "MissingPermissions" /\ ~CausedByNotFound(err)) =>
                    \E i \in Notices(r) :
                        Says(io[r][i].what,
                             "An error occurred while processing your command.")

\* C27 (one error notice): for one failed command at most one error notice
\* is sent; when the command's own handler has handled the error the
\* global handler sends nothing; and no notice is sent when the cause is an
\* expired interaction.
C27_OneNotice ==
    \A r \in Reqs :
        error[r].kind = "raised" =>
            /\ Cardinality(Notices(r)) <= 1
            /\ error[r].own =>
                  \A i \in Notices(r) :
                      ~Says(io[r][i].what,
                            "An unexpected error occurred. Please try again.")
            /\ CausedByNotFound(error[r].raised) => Notices(r) = {}

\* The callback of /askquestion raised after the deferral, the command's
\* handler sent its notice, and the global handler ran as well.
C27_Witness ==
    \E r \in Reqs :
        /\ error[r].kind = "raised"
        /\ error[r].own /\ error[r].global
        /\ error[r].raised = [type |-> "CommandInvokeError", original |-> "Exception"]
        /\ Len(io[r]) = 2
        /\ io[r][1].what = "defer"
        /\ io[r][2].call = "followup.send"
        /\ io[r][2].result = "ok"

\* An attempt of main fails: run_with_fallbacks comes to its retry delay
\* or to emergency mode.
AttemptFails == sup = "main" /\ sup' \in {"sleep", "emergency"}

\* What C25 says of one step of the process.
SupervisorStep ==
    /\ (attempt' # attempt) =>
          (sup = "sleep" /\ sup' = "main" /\ attempt' = attempt + 1)
    /\ (sup = "sleep") => (sup' \in {"sleep", "main", "stopped"})
    /\ (sup = "sleep" /\ sup' = "main") => (attempt' = attempt + 1)
    /\ AttemptFails => (sup' = "emergency" <=> attempt = max_retries - 1)
    /\ (sup' = "emergency" /\ sup # "emergency") => AttemptFails
    /\ (sup = "stopped") =>
          (sup' = "stopped" /\ attempt' = attempt /\ listening' = 0)

\* C25 (supervisor): run_with_fallbacks starts the application at most
\* max_retries times; an attempt starts only as the first or after the
\* retry delay of a failed one, and a failed attempt that has retries left
\* is followed by that delay and one new attempt; emergency mode starts
\* exactly when the last attempt fails; and after a user interrupt there
\* is no further attempt and no emergency mode.
C25_Supervisor ==
    /\ [](attempt \in 0..(max_retries - 1))
    /\ [][SupervisorStep]_vars

\* Three attempts have failed and the emergency server is listening.
C25_Witness ==
    /\ attempt = max_retries - 1
    /\ sup = "emergency"
    /\ web_task = "emergency"
    /\ bot_task = "closed"
    /\ http.path = "/health"
    /\ http.mode = "emergency"

\* What C26 says of one step of the process.
KeepsServingStep ==
    (bot_task = "failed" /\ web_task \in ServingModes /\ sup' # "stopped") =>
        /\ web_task' = web_task
        /\ listening' = listening
        /\ sup' = sup
        /\ sup \in {"main", "keep_web"}

\* C26 (bot failure): while the bot task has failed and the HTTP server
\* task is listening, every step other than a user interrupt leaves the
\* server listening in its mode and the process in main; and at no time
\* are two HTTP servers of the process listening.
C26_KeepsServing ==
    /\ [](listening <= 1)
    /\ [][KeepsServingStep]_vars

\* The bot task has failed after it was ready, and the full server has
\* answered GET /health since.
C26_Witness ==
    /\ DISCORD_TOKEN = "T"
    /\ bot_task = "failed"
    /\ sup = "main"
    /\ web_task = "full"
    /\ listening = 1
    /\ http.path = "/health"
    /\ http.bot = "failed"
    /\ http.response.status = 503

\* The command /askquestion was invoked for request r.
Asked(r) == question[r] # NoQuestion /\ io[r] # <<>>

\* The deferral of request r went through.
Deferred(r) == Asked(r) /\ io[r][1] = Call("response.defer", "defer", "ok")

\* The validation messages sent for request r, as positions of its log.
Validations(r) == { i \in 1..Len(io[r]) : io[r][i].what = "validation" }

\* C28 (input validation): once the interaction is deferred, a question
\* that is empty or shorter than 3 characters after trimming gets exactly
\* one validation message and no resolver stage and no model query, and a
\* question of 3 or more characters after trimming reaches the resolver
\* and gets no validation message.
C28_Validation ==
    \A r \in Reqs :
        Deferred(r) =>
            IF question[r].core < 3
            THEN /\ Cardinality(Validations(r)) = 1
                 /\ stages[r] = <<>>
                 /\ queries[r] = <<>>
                 /\ answer[r] = NotResolved
            ELSE /\ Validations(r) = {}
                 /\ stages[r] # <<>>

\* A question of three characters of which one is whitespace was refused
\* with the validation message.
C28_Witness ==
    \E r \in Reqs :
        /\ question[r].core = 2
        /\ question[r].pad = 1
        /\ pc[r] = "done"
        /\ io[r] = << Call("response.defer", "defer", "ok"),
                      Call("followup.send", "validation", "ok") >>

\* The calls of request r that went through as its initial response.
InitialResponses(r) ==
    { i \in 1..Len(io[r]) :
        /\ io[r][i].call \in {"response.defer", "response.send_message"}
        /\ io[r][i].result = "ok" }

\* C29 (response protocol): the first platform call of an askquestion
\* invocation is the deferral, and no stage, query or validation comes
\* without it having gone through; every call after a deferral that went
\* through is a follow-up; the initial-response channel is used after the
\* deferral only by an error notice and only while no initial response
\* has gone through; so at most one initial response goes through.
C29_Protocol ==
    \A r \in Reqs :
        Asked(r) =>
            /\ io[r][1].call = "response.defer"
            /\ (stages[r] # <<>> \/ queries[r] # <<>> \/ Validations(r) # {})
                  => Deferred(r)
            /\ \A i \in 2..Len(io[r]) :
                  \/ io[r][i].call = "followup.send"
                  \/ /\ io[r][i].call = "response.send_message"
                     /\ i \in Notices(r)
                     /\ \A j \in 1..(i - 1) : j \notin InitialResponses(r)
            /\ Cardinality(InitialResponses(r)) <= 1

\* The deferral failed and the error notice went out as the initial
\* response.
C29_Witness ==
    \E r \in Reqs :
        /\ Asked(r)
        /\ Len(io[r]) = 2
        /\ io[r][1] = Call("response.defer", "defer", "HTTPException")
        /\ io[r][2].call = "response.send_message"
        /\ io[r][2].result = "ok"
        /\ stages[r] = <<>>
====
